---------------------------- MODULE Spec2Model ----------------------------
(***************************************************************************)
(* The Expectation lifecycle of the Package Manager's ExpectationManager,  *)
(* centred on evaluateExpectationStateWaiting (waiting.ts).                *)
(*                                                                         *)
(* evaluateExpectationStateWaiting is an async function: it is modelled as *)
(* one action per continuation, split at its await points (lines 23, 28    *)
(* and 42).  The locals that live across an await (fulfilled, readyToStart)*)
(* and the position in the function are kept in the frame `ev`.            *)
(*                                                                         *)
(* The awaited calls (manager.assignWorkerToSession, the worker's          *)
(* isExpectationFullfilled, tracker.isExpectationReadyToStartWorkingOn)    *)
(* reach Workers over RPC and may reject.  The tracker calls that are not  *)
(* awaited (updateTrackedExpectationStatus, onExpectationFullfilled,       *)
(* noWorkerAssigned) are synchronous in-memory bookkeeping and return      *)
(* normally.                                                               *)
(***************************************************************************)
EXTENDS Integers, Sequences, FiniteSets, TLC

(***************************************************************************)
(* Bounds of the model.                                                    *)
(***************************************************************************)
NumWorkers == 2
MaxErrorCount == 2

(* The expectations of the dependency scenario: exp1 depends on exp0. *)
exp0 == "exp0"
exp1 == "exp1"
NoExp == "none"
Exps == {exp0, exp1}
Workers == 1..NumWorkers
NoWorker == 0

(* ExpectedPackageStatusAPI.WorkStatusState *)
States == {"NEW", "WAITING", "READY", "WORKING", "FULFILLED", "REMOVED", "RESTARTED", "ABORTED"}

Undef == "undefined"
Tri == {Undef, "true", "false"}

(* Expectation.dependsOnFulfilled *)
dependsOnFulfilled(e) == IF e = exp1 THEN {exp0} ELSE {}

(* exp.contentVersionHash *)
contentVersionHash(e) == "h1"

(***************************************************************************)
(* Reason pairs {user, tech}.  A template string is modelled by its fixed  *)
(* text (tech) and the values interpolated into it (worker, detail).       *)
(***************************************************************************)
MkReason(user, tech, worker, detail) ==
    [user |-> user, tech |-> tech, worker |-> worker, detail |-> detail]

(* Reasons a Worker may put into a reply. *)
WorkerReasons ==
    { MkReason("userA", "techA", NoWorker, ""), MkReason("userB", "techB", NoWorker, "") }

NoReason == MkReason("", "", NoWorker, "")

(* Errors an awaited call may reject with: a transport error (peer         *)
(* unreachable, RPC timeout) or an error the worker explicitly reports.    *)
ErrorKinds == {"transport", "workerReported"}

(* stringifyError(error): the text of the error. *)
stringifyError(error) == IF error = "transport" THEN "Timeout" ELSE "Worker error"

(***************************************************************************)
(* TrackedExpectation['status'] and partial statuses.                      *)
(***************************************************************************)
EmptyStatus ==
    [sourceExists |-> Undef, targetExists |-> Undef, workProgress |-> Undef,
     actualVersionHash |-> Undef]

(* Partial<status> with no field set: `{}` *)
EmptyPatch == EmptyStatus

MergeStatus(old, patch) ==
    [f \in DOMAIN old |-> IF patch[f] = Undef THEN old[f] ELSE patch[f]]

(***************************************************************************)
(* The argument of tracker.updateTrackedExpectationStatus.  An absent      *)
(* state is Undef; an absent reason or status is the empty sequence.       *)
(***************************************************************************)
MkUpd(st, rsn, stat, err) == [state |-> st, reason |-> rsn, status |-> stat, isError |-> err]

VARIABLES
    state,       \* trackedExp.state
    reason,      \* trackedExp.reason
    status,      \* trackedExp.status
    errorCount,  \* trackedExp.errorCount
    session,     \* trackedExp.session
    ev           \* the running evaluateExpectationStateWaiting call

vars == <<state, reason, status, errorCount, session, ev>>

(* The utilities of the library (deferGets, promiseTimeout, hashObj,       *)
(* deepEqual, diff) keep no state of the expectations and the evaluation   *)
(* of an expectation keeps none of theirs: each is studied under its own   *)
(* specification, in which the variables of the others stay unused.        *)
VARIABLES
    defers,       \* deferGets: the Map groupId -> waiting list
    invocations,  \* deferGets: the calls of the wrapped function fcn
    callers,      \* deferGets: the promises returned to the callers
    now,          \* promiseTimeout: Date.now()
    pt,           \* promiseTimeout: one call of promiseTimeout
    args,         \* the arguments of a pure function (hashObj, deepEqual, diff)
    result,       \* what the function returned for args; <<>> before it is applied
    ff,           \* quantelFileflowCopy: one call and its job on the FileFlow server
    cn            \* Connector: one call of init

dgVars == <<defers, invocations, callers>>
ptVars == <<now, pt>>
fnVars == <<args, result>>
appVars == <<ff, cn>>
utilVars == <<dgVars, ptVars, fnVars, appVars>>
allVars == <<vars, utilVars>>

Unused == <<>>
NoDeferGets == defers = Unused /\ invocations = Unused /\ callers = Unused
NoPromiseTimeout == now = 0 /\ pt = Unused
NoFunction == args = Unused /\ result = Unused
NoFileflow == ff = Unused
NoConnector == cn = Unused
NoExpectations ==
    /\ state = Unused /\ reason = Unused /\ status = Unused
    /\ errorCount = Unused /\ session = Unused /\ ev = Unused

EmptySession == [assignedWorker |-> NoWorker, triggerOtherExpectationsAgain |-> FALSE]

IdleFrame ==
    [pc |-> "idle", exp |-> NoExp, fulfilled |-> <<>>, readyToStart |-> <<>>,
     error |-> <<>>, calls |-> <<>>, updates |-> <<>>, noWorkerAssigned |-> 0,
     triggered |-> <<>>, escaped |-> FALSE]

Init ==
    /\ state = [e \in Exps |-> "NEW"]
    /\ reason = [e \in Exps |-> NoReason]
    /\ status = [e \in Exps |-> EmptyStatus]
    /\ errorCount = [e \in Exps |-> 0]
    /\ session = [e \in Exps |-> EmptySession]
    /\ ev = IdleFrame
    /\ NoDeferGets /\ NoPromiseTimeout /\ NoFunction /\ NoFileflow /\ NoConnector

(***************************************************************************)
(* TrackedExpectationAPI (the tracker).                                    *)
(***************************************************************************)
StateRank(st) ==
    CASE st = "NEW" -> 0
      [] st = "WAITING" -> 1
      [] st = "READY" -> 2
      [] st = "WORKING" -> 3
      [] st = "FULFILLED" -> 4
      [] OTHER -> -1

(* The tracked fields of expectation e, as one record. *)
Tracked(e) ==
    [state |-> state[e], reason |-> reason[e], status |-> status[e],
     errorCount |-> errorCount[e]]

(* tracker.updateTrackedExpectationStatus(trackedExp, upd): only the keys  *)
(* present in upd are written; an update flagged isError counts against   *)
(* the expectation, a forward transition resets the count.                 *)
updateTrackedExpectationStatus(t, upd) ==
    [state |-> IF upd.state = Undef THEN t.state ELSE upd.state,
     reason |-> IF upd.reason = <<>> THEN t.reason ELSE upd.reason[1],
     status |-> IF upd.status = <<>> THEN t.status ELSE MergeStatus(t.status, upd.status[1]),
     errorCount |->
        IF upd.isError THEN t.errorCount + 1
        ELSE IF upd.state # Undef /\ StateRank(upd.state) > StateRank(t.state) THEN 0
        ELSE t.errorCount]

(* Write the tracked fields of expectation e back. *)
Store(e, t) ==
    /\ state' = [state EXCEPT ![e] = t.state]
    /\ reason' = [reason EXCEPT ![e] = t.reason]
    /\ status' = [status EXCEPT ![e] = t.status]
    /\ errorCount' = [errorCount EXCEPT ![e] = t.errorCount]

(* tracker.onExpectationFullfilled(trackedExp): true when some other       *)
(* expectation is triggered by this one being fulfilled.                   *)
onExpectationFullfilled(e) == \E d \in Exps \ {e} : e \in dependsOnFulfilled(d)

NoWorkerReason == MkReason("No worker available", "No worker assigned", NoWorker, "")

(* tracker.noWorkerAssigned(trackedExp): records the reason, keeps the state. *)
noWorkerAssigned(t) == updateTrackedExpectationStatus(t, MkUpd(Undef, <<NoWorkerReason>>, <<>>, FALSE))

(***************************************************************************)
(* manager.assignWorkerToSession(trackedExp): picks one Worker for the      *)
(* session, or none.  The choice depends on availability and on the cost   *)
(* each Worker reports, so any Worker may be the one.                      *)
(***************************************************************************)
assignWorkerToSession(s, w) == [s EXCEPT !.assignedWorker = w]

(* The session an evaluation starts with: the scratch area is cleared       *)
(* between evaluations.                                                    *)
SessionForEvaluation(s) == EmptySession

(***************************************************************************)
(* Replies of the Worker.                                                  *)
(***************************************************************************)
FulfilledReplies == [fulfilled : BOOLEAN, reason : WorkerReasons]

ReadyReplies ==
    [ready : BOOLEAN, isWaitingForAnother : Tri, sourceExists : Tri, reason : WorkerReasons]

(* Variant: the worker is told the expectation was fulfilled before. *)
Call_WasFulfilled(w, method, wasFulfilled) ==
    [worker |-> w, method |-> method, wasFulfilled |-> TRUE]

Call(w, method, wasFulfilled) == [worker |-> w, method |-> method, wasFulfilled |-> wasFulfilled]

(***************************************************************************)
(* evaluateExpectationStateWaiting (waiting.ts)                            *)
(***************************************************************************)

(* Variant: the branch of line 25 is taken whether or not a worker is assigned. *)
HasAssignedWorker_Always(s) == TRUE

(* line 25: if (trackedExp.session.assignedWorker) *)
HasAssignedWorker(s) == s.assignedWorker # NoWorker

(* Variant: an already fulfilled expectation is sent through READY. *)
FulfilledUpdate_ToReady == MkUpd("READY", <<>>, <<>>, FALSE)

(* lines 34-36 *)
FulfilledUpdate == MkUpd("FULFILLED", <<>>, <<>>, FALSE)

(* Variant: a reply without sourceExists is taken to say the source is missing. *)
NewStatus_UndefinedIsFalse(readyToStart) ==
    [EmptyPatch EXCEPT !.sourceExists =
        IF readyToStart.sourceExists = Undef THEN "false" ELSE readyToStart.sourceExists]

(* lines 47-48 *)
NewStatus(readyToStart) == [EmptyPatch EXCEPT !.sourceExists = readyToStart.sourceExists]

(* Variant: the flag is raised on every fulfilment, triggered or not. *)
TriggerAgain_Always(s, triggered) == [s EXCEPT !.triggerOtherExpectationsAgain = TRUE]

(* lines 37-40: if (tracker.onExpectationFullfilled(trackedExp))            *)
(*                  trackedExp.session.triggerOtherExpectationsAgain = true *)
TriggerAgain(s, triggered) ==
    IF triggered THEN [s EXCEPT !.triggerOtherExpectationsAgain = TRUE] ELSE s

(* Variant: a ready expectation is put straight into WORKING. *)
ReadyUpdate_ToWorking(fulfilled, readyToStart) ==
    MkUpd("WORKING",
          <<MkReason("About to start working..", "About to start, was not fulfilled: ",
                     NoWorker, fulfilled.reason.tech)>>,
          <<NewStatus(readyToStart)>>, FALSE)

(* lines 51-58 *)
ReadyUpdate(fulfilled, readyToStart) ==
    MkUpd("READY",
          <<MkReason("About to start working..", "About to start, was not fulfilled: ",
                     NoWorker, fulfilled.reason.tech)>>,
          <<NewStatus(readyToStart)>>, FALSE)

(* Variant: waiting for another expectation sends the expectation back to NEW. *)
WaitingForAnotherUpdate_ToNew(readyToStart) ==
    MkUpd("NEW", <<readyToStart.reason>>, <<NewStatus(readyToStart)>>, FALSE)

(* lines 64-67 *)
WaitingForAnotherUpdate(readyToStart) ==
    MkUpd(Undef, <<readyToStart.reason>>, <<NewStatus(readyToStart)>>, FALSE)

(* Variant: a not-ready expectation is left in WAITING. *)
NotReadyUpdate_Stay(readyToStart) ==
    MkUpd(Undef, <<readyToStart.reason>>, <<NewStatus(readyToStart)>>, FALSE)

(* lines 70-74 *)
NotReadyUpdate(readyToStart) ==
    MkUpd("NEW", <<readyToStart.reason>>, <<NewStatus(readyToStart)>>, FALSE)

(* Variant: isWaitingForAnother is taken for readiness. *)
ReadyToStartUpdate_WaitingIsReady(fulfilled, readyToStart) ==
    IF readyToStart.ready \/ readyToStart.isWaitingForAnother = "true"
    THEN ReadyUpdate(fulfilled, readyToStart)
    ELSE NotReadyUpdate(readyToStart)

(* Variant: isWaitingForAnother is ignored. *)
ReadyToStartUpdate_NoWaiting(fulfilled, readyToStart) ==
    IF readyToStart.ready THEN ReadyUpdate(fulfilled, readyToStart)
    ELSE NotReadyUpdate(readyToStart)

(* lines 50-76: the update chosen from the readiness reply *)
ReadyToStartUpdate(fulfilled, readyToStart) ==
    IF readyToStart.ready THEN ReadyUpdate(fulfilled, readyToStart)
    ELSE IF readyToStart.isWaitingForAnother = "true" THEN WaitingForAnotherUpdate(readyToStart)
    ELSE NotReadyUpdate(readyToStart)

(* lines 82-89 *)
ErrorUpdate(w, error) ==
    MkUpd("NEW",
          <<MkReason("Restarting due to error", "Error from worker ", w, stringifyError(error))>>,
          <<>>, TRUE)

(* lines 19-23: assertState, the session is created when absent, and       *)
(* manager.assignWorkerToSession is called.                                *)
StartEvaluation(e) ==
    /\ ev.pc = "idle"
    /\ UNCHANGED utilVars
    /\ state[e] = "WAITING"
    /\ session' = [session EXCEPT ![e] = SessionForEvaluation(@)]
    /\ ev' = [IdleFrame EXCEPT !.pc = "assignWorkerToSession", !.exp = e]
    /\ UNCHANGED <<state, reason, status, errorCount>>

(* line 23 rejects: the call is outside the try block, the exception       *)
(* leaves evaluateExpectationStateWaiting.                                 *)
AssignThrows ==
    /\ ev.pc = "assignWorkerToSession"
    /\ UNCHANGED utilVars
    /\ \E error \in ErrorKinds :
          ev' = [ev EXCEPT !.pc = "done", !.error = <<error>>, !.escaped = TRUE]
    /\ UNCHANGED <<state, reason, status, errorCount, session>>

(* lines 23-28 and 91-95: assignWorkerToSession resolved. *)
AssignResolved ==
    /\ ev.pc = "assignWorkerToSession"
    /\ UNCHANGED utilVars
    /\ \E w \in Workers \cup {NoWorker} :
          LET e == ev.exp
              s == assignWorkerToSession(session[e], w)
          IN  /\ session' = [session EXCEPT ![e] = s]
              /\ IF HasAssignedWorker(s)
                 THEN /\ ev' = [ev EXCEPT !.pc = "isExpectationFullfilled",
                                          !.calls = Append(@, Call(s.assignedWorker,
                                                      "isExpectationFullfilled", FALSE))]
                      /\ UNCHANGED <<state, reason, status, errorCount>>
                 ELSE /\ Store(e, noWorkerAssigned(Tracked(e)))
                      /\ ev' = [ev EXCEPT !.pc = "done", !.noWorkerAssigned = @ + 1]

(* Variant: the catch block swallows the error without a status update. *)
Catch_Silent(e, t, error) ==
    /\ ev' = [ev EXCEPT !.pc = "done", !.error = <<error>>]
    /\ UNCHANGED utilVars
    /\ UNCHANGED <<state, reason, status, errorCount, session>>

(* lines 78-90: the catch block.  t is the tracked expectation as the try  *)
(* block left it.                                                          *)
Catch(e, t, error) ==
    LET upd == ErrorUpdate(session[e].assignedWorker, error)
    IN  /\ Store(e, updateTrackedExpectationStatus(t, upd))
        /\ ev' = [ev EXCEPT !.pc = "done", !.error = <<error>>, !.updates = Append(@, upd)]
        /\ UNCHANGED <<session, utilVars>>

(* line 28 rejects *)
FulfilledThrows ==
    /\ ev.pc = "isExpectationFullfilled"
    /\ errorCount[ev.exp] < MaxErrorCount
    /\ \E error \in ErrorKinds : Catch(ev.exp, Tracked(ev.exp), error)

(* lines 28-45: isExpectationFullfilled replied *)
FulfilledReplied ==
    /\ ev.pc = "isExpectationFullfilled"
    /\ UNCHANGED utilVars
    /\ \E fulfilled \in FulfilledReplies :
          LET e == ev.exp
          IN  IF fulfilled.fulfilled
              THEN LET t == updateTrackedExpectationStatus(Tracked(e), FulfilledUpdate)
                       \* the trigger is called with the expectation as updated
                       triggered == onExpectationFullfilled(e)
                   IN  /\ Store(e, t)
                       /\ session' = [session EXCEPT ![e] = TriggerAgain(@, triggered)]
                       /\ ev' = [ev EXCEPT !.pc = "done", !.fulfilled = <<fulfilled>>,
                                           !.updates = Append(@, FulfilledUpdate),
                                           !.triggered = <<[result |-> triggered,
                                                            state |-> t.state]>>]
              ELSE /\ ev' = [ev EXCEPT !.pc = "isExpectationReadyToStartWorkingOn",
                                       !.fulfilled = <<fulfilled>>,
                                       !.calls = Append(@, Call(session[e].assignedWorker,
                                                   "isExpectationReadyToStartWorkingOn", FALSE))]
                   /\ UNCHANGED <<state, reason, status, errorCount, session>>

(* line 42 rejects *)
ReadyThrows ==
    /\ ev.pc = "isExpectationReadyToStartWorkingOn"
    /\ errorCount[ev.exp] < MaxErrorCount
    /\ \E error \in ErrorKinds : Catch(ev.exp, Tracked(ev.exp), error)

(* lines 42-77: isExpectationReadyToStartWorkingOn replied *)
ReadyReplied ==
    /\ ev.pc = "isExpectationReadyToStartWorkingOn"
    /\ UNCHANGED utilVars
    /\ \E readyToStart \in ReadyReplies :
          LET e == ev.exp
              upd == ReadyToStartUpdate(ev.fulfilled[1], readyToStart)
          IN  /\ Store(e, updateTrackedExpectationStatus(Tracked(e), upd))
              /\ ev' = [ev EXCEPT !.pc = "done", !.readyToStart = <<readyToStart>>,
                                  !.updates = Append(@, upd)]
              /\ UNCHANGED session

(* line 96: the call has returned (or thrown); the runner goes on and the   *)
(* session, a per-evaluation scratch area, is cleared.                     *)
EvaluationReturns ==
    /\ ev.pc = "done"
    /\ UNCHANGED utilVars
    /\ ev' = IdleFrame
    /\ session' = [session EXCEPT ![ev.exp] = SessionForEvaluation(@)]
    /\ UNCHANGED <<state, reason, status, errorCount>>

(***************************************************************************)
(* The rest of the lifecycle (the transition table of the evaluation       *)
(* loop): the evaluations of the other states and the events of a Worker   *)
(* that is working.  The loop is cooperative: an evaluation starts only    *)
(* when no other evaluation is running; the events of a working Worker     *)
(* arrive at any time.                                                     *)
(***************************************************************************)
AllFulfilled(ids) == \A d \in ids : state[d] = "FULFILLED"

Evaluate(e, upd) ==
    /\ ev.pc = "idle"
    /\ UNCHANGED utilVars
    /\ Store(e, updateTrackedExpectationStatus(Tracked(e), upd))
    /\ UNCHANGED <<session, ev>>

(* NEW: a dependency is not FULFILLED -> NEW; no worker supports it -> NEW; *)
(* otherwise -> WAITING.                                                   *)
EvaluateNew(e) ==
    /\ state[e] = "NEW"
    /\ IF ~AllFulfilled(dependsOnFulfilled(e))
       THEN Evaluate(e, MkUpd(Undef, <<MkReason("Waiting for X", "", NoWorker, "")>>, <<>>, FALSE))
       ELSE \E support \in BOOLEAN :
               IF support
               THEN Evaluate(e, MkUpd("WAITING",
                                <<MkReason("Found a capable worker", "", NoWorker, "")>>, <<>>, FALSE))
               ELSE Evaluate(e, MkUpd(Undef,
                                <<MkReason("No worker supports this Expectation", "", NoWorker, "")>>,
                                <<>>, FALSE))

(* READY: the worker accepts workOnExpectation -> WORKING; rejects -> NEW. *)
EvaluateReady(e) ==
    /\ state[e] = "READY"
    /\ \E accepts \in BOOLEAN :
          IF accepts
          THEN Evaluate(e, MkUpd("WORKING", <<MkReason("Working", "", NoWorker, "")>>, <<>>, FALSE))
          ELSE Evaluate(e, MkUpd("NEW", <<MkReason("Worker rejected", "", NoWorker, "")>>, <<>>, FALSE))

(* FULFILLED: re-verification; not fulfilled any more -> NEW. *)
EvaluateFulfilled(e) ==
    /\ state[e] = "FULFILLED"
    /\ \E fulfilled \in BOOLEAN :
          IF fulfilled
          THEN Evaluate(e, MkUpd(Undef, <<>>, <<>>, FALSE))
          ELSE Evaluate(e, MkUpd("NEW", <<MkReason("Not fulfilled anymore", "", NoWorker, "")>>,
                                 <<>>, FALSE))

WorkerEvent(e, upd) ==
    /\ state[e] = "WORKING"
    /\ UNCHANGED utilVars
    /\ Store(e, updateTrackedExpectationStatus(Tracked(e), upd))
    /\ UNCHANGED <<session, ev>>

(* WORKING: the worker signals done(hash) -> FULFILLED *)
WorkDone(e) ==
    WorkerEvent(e, MkUpd("FULFILLED", <<MkReason("Done", "", NoWorker, "")>>,
                         <<[EmptyPatch EXCEPT !.actualVersionHash = contentVersionHash(e),
                                              !.workProgress = "1"]>>, FALSE))

(* WORKING: the worker signals error -> NEW, counted *)
WorkError(e) ==
    /\ errorCount[e] < MaxErrorCount
    /\ WorkerEvent(e, MkUpd("NEW", <<MkReason("Restarting due to error", "Work error", NoWorker, "")>>,
                            <<>>, TRUE))

(* WORKING: the worker disconnects -> NEW, not counted *)
WorkerDisconnected(e) ==
    WorkerEvent(e, MkUpd("NEW", <<MkReason("Worker disconnected", "", NoWorker, "")>>, <<>>, FALSE))

Next ==
    \/ \E e \in Exps : StartEvaluation(e)
    \/ AssignThrows
    \/ AssignResolved
    \/ FulfilledThrows
    \/ FulfilledReplied
    \/ ReadyThrows
    \/ ReadyReplied
    \/ EvaluationReturns
    \/ \E e \in Exps : EvaluateNew(e)
    \/ \E e \in Exps : EvaluateReady(e)
    \/ \E e \in Exps : EvaluateFulfilled(e)
    \/ \E e \in Exps : WorkDone(e)
    \/ \E e \in Exps : WorkError(e)
    \/ \E e \in Exps : WorkerDisconnected(e)

Spec == Init /\ [][Next]_allVars

TypeOK ==
    /\ state \in [Exps -> States]
    /\ errorCount \in [Exps -> 0..MaxErrorCount]
    /\ \A e \in Exps : session[e].assignedWorker \in Workers \cup {NoWorker}
    /\ ev.pc \in {"idle", "assignWorkerToSession", "isExpectationFullfilled",
                  "isExpectationReadyToStartWorkingOn", "done"}

(***************************************************************************)
(* Properties of evaluateExpectationStateWaiting.                          *)
(***************************************************************************)
Done == ev.pc = "done"

(* The worker the calls of the running evaluation are addressed to. *)
WorkerAssigned == ev.calls # <<>>

GotFulfilled == ev.fulfilled # <<>> /\ ev.fulfilled[1].fulfilled
GotNotFulfilled == ev.fulfilled # <<>> /\ ~ev.fulfilled[1].fulfilled

GotReady == GotNotFulfilled /\ ev.readyToStart # <<>> /\ ev.readyToStart[1].ready
GotWaitingForAnother ==
    /\ GotNotFulfilled /\ ev.readyToStart # <<>>
    /\ ~ev.readyToStart[1].ready /\ ev.readyToStart[1].isWaitingForAnother = "true"
GotNotReady ==
    /\ GotNotFulfilled /\ ev.readyToStart # <<>>
    /\ ~ev.readyToStart[1].ready /\ ev.readyToStart[1].isWaitingForAnother # "true"

Called(method) == \E i \in 1..Len(ev.calls) : ev.calls[i].method = method

(* C1: when the assigned worker answers isExpectationFullfilled with       *)
(* fulfilled=true, the evaluation ends with the expectation FULFILLED; the *)
(* readiness query is never issued and the expectation is never READY or   *)
(* WORKING on the way (it is WAITING until the reply is handled).          *)
C1_FulfilledDirectly ==
    /\ ev.pc \in {"assignWorkerToSession", "isExpectationFullfilled"} => state[ev.exp] = "WAITING"
    /\ (WorkerAssigned /\ GotFulfilled) =>
          /\ Done
          /\ state[ev.exp] = "FULFILLED"
          /\ ~Called("isExpectationReadyToStartWorkingOn")
          /\ ev.readyToStart = <<>>

C1_Witness ==
    /\ Done /\ WorkerAssigned /\ GotFulfilled
    /\ state[ev.exp] = "FULFILLED"
    /\ ev.calls = <<Call(session[ev.exp].assignedWorker, "isExpectationFullfilled", FALSE)>>

(* C2: with an assigned worker, not fulfilled and ready=true, the           *)
(* evaluation makes one update, to READY, and the session still holds the  *)
(* worker that was asked.                                                  *)
C2_ReadyMovesToReady ==
    (Done /\ WorkerAssigned /\ GotReady) =>
        /\ state[ev.exp] = "READY"
        /\ Len(ev.updates) = 1 /\ ev.updates[1].state = "READY"
        /\ session[ev.exp].assignedWorker \in Workers
        /\ \A i \in 1..Len(ev.calls) : ev.calls[i].worker = session[ev.exp].assignedWorker

C2_Witness ==
    /\ Done /\ WorkerAssigned /\ GotReady
    /\ state[ev.exp] = "READY"
    /\ session[ev.exp].assignedWorker \in Workers

(* C3: with an assigned worker, not fulfilled, ready=false and              *)
(* isWaitingForAnother not true, the evaluation moves the expectation to   *)
(* NEW (the state in which the fleet is probed) with the worker's reason.  *)
C3_NotReadyMovesToNew ==
    (Done /\ WorkerAssigned /\ GotNotReady) =>
        /\ state[ev.exp] = "NEW"
        /\ reason[ev.exp] = ev.readyToStart[1].reason
        /\ Len(ev.updates) = 1 /\ ev.updates[1].state = "NEW"

C3_Witness ==
    /\ Done /\ WorkerAssigned /\ GotNotReady
    /\ state[ev.exp] = "NEW"
    /\ reason[ev.exp] = ev.readyToStart[1].reason

(* The step in which the readiness reply is handled. *)
ReadyReplyStep ==
    /\ ev.pc = "isExpectationReadyToStartWorkingOn"
    /\ ev'.pc = "done"
    /\ ev'.readyToStart # <<>>

(* C4: with ready=false and isWaitingForAnother=true the update carries no  *)
(* state: the expectation stays WAITING, its reason becomes the worker's   *)
(* reason, sourceExists is set when the reply reports it, and nothing else *)
(* of the expectation (nor anything of another expectation) changes.       *)
C4_WaitingForAnotherStays ==
    [][ (ReadyReplyStep /\ ~ev'.readyToStart[1].ready
           /\ ev'.readyToStart[1].isWaitingForAnother = "true") =>
          LET e == ev.exp
              r == ev'.readyToStart[1]
          IN  /\ state' = state /\ state[e] = "WAITING"
              /\ ev'.updates = <<MkUpd(Undef, <<r.reason>>, ev'.updates[1].status, FALSE)>>
              /\ reason' = [reason EXCEPT ![e] = r.reason]
              /\ status' = [status EXCEPT ![e].sourceExists =
                                IF r.sourceExists = Undef THEN @ ELSE r.sourceExists]
              /\ errorCount' = errorCount
              /\ session' = session ]_vars

C4_Witness ==
    /\ Done /\ WorkerAssigned /\ GotWaitingForAnother
    /\ state[ev.exp] = "WAITING"
    /\ reason[ev.exp] = ev.readyToStart[1].reason
    /\ ev.readyToStart[1].sourceExists = "false"
    /\ status[ev.exp].sourceExists = "false"

(* C5: when no worker is assigned, the evaluation issues no worker call,    *)
(* leaves the state WAITING and calls tracker.noWorkerAssigned exactly     *)
(* once (which records the no-worker reason).                              *)
C5_NoWorkerAssigned ==
    (Done /\ ~ev.escaped /\ session[ev.exp].assignedWorker = NoWorker) =>
        /\ ev.calls = <<>>
        /\ ev.updates = <<>>
        /\ state[ev.exp] = "WAITING"
        /\ ev.noWorkerAssigned = 1
        /\ reason[ev.exp] = NoWorkerReason

C5_Witness ==
    /\ Done /\ ~ev.escaped /\ session[ev.exp].assignedWorker = NoWorker
    /\ ev.noWorkerAssigned = 1
    /\ state[ev.exp] = "WAITING"

(* C6: whichever awaited step throws, no exception leaves the evaluation:   *)
(* it ends with the expectation in NEW and one update flagged isError whose *)
(* tech reason names the cause.                                            *)
C6_NoExceptionEscapes ==
    (Done /\ ev.error # <<>>) =>
        /\ ~ev.escaped
        /\ state[ev.exp] = "NEW"
        /\ ev.updates # <<>>
        /\ ev.updates[Len(ev.updates)].isError
        /\ reason[ev.exp].detail = stringifyError(ev.error[1])

(* C7: an expectation in FULFILLED has status.actualVersionHash equal to    *)
(* exp.contentVersionHash.                                                 *)
C7_FulfilledHasVersionHash ==
    \A e \in Exps :
        state[e] = "FULFILLED" => status[e].actualVersionHash = contentVersionHash(e)

Exp1EvaluatedBeforeExp0 ==
    /\ ev.exp = exp1
    /\ ev.pc \notin {"idle", "done"}
    /\ ev'.pc = "done"
    /\ state[exp0] # "FULFILLED"

WorkerCallFails(kind) ==
    /\ ev.pc \in {"isExpectationFullfilled", "isExpectationReadyToStartWorkingOn"}
    /\ ev'.pc = "done"
    /\ ev'.error = <<kind>>

(* C10: a worker call that fails with a transport error sends the           *)
(* expectation back to NEW without counting against it (errorCount is not  *)
(* incremented), unlike a failure the worker reports.                      *)
C10_TransportErrorNotCounted ==
    [][ /\ WorkerCallFails("transport") =>
              (state'[ev.exp] = "NEW" /\ errorCount'[ev.exp] = errorCount[ev.exp])
        /\ WorkerCallFails("workerReported") =>
              (state'[ev.exp] = "NEW" /\ errorCount'[ev.exp] = errorCount[ev.exp] + 1) ]_vars

(* The status updates the running evaluation has made so far: its own      *)
(* calls of updateTrackedExpectationStatus and the one made on its behalf  *)
(* by tracker.noWorkerAssigned.                                            *)
StatusUpdates == Len(ev.updates) + ev.noWorkerAssigned

C12_TriggerAfterFulfilled ==
    (ev.pc # "idle") =>
        IF Done /\ WorkerAssigned /\ GotFulfilled
        THEN /\ Len(ev.triggered) = 1
             /\ ev.triggered[1].state = "FULFILLED"
             /\ state[ev.exp] = "FULFILLED"
             /\ session[ev.exp].triggerOtherExpectationsAgain = ev.triggered[1].result
        ELSE /\ ev.triggered = <<>>
             /\ session[ev.exp].triggerOtherExpectationsAgain = FALSE

C12_Witness ==
    /\ Done /\ WorkerAssigned /\ GotFulfilled
    /\ ev.exp = exp0
    /\ ev.triggered = <<[result |-> TRUE, state |-> "FULFILLED"]>>
    /\ session[exp0].triggerOtherExpectationsAgain

(* C13: every update of the evaluation that names a state (FULFILLED,       *)
(* READY or NEW) carries a reason pair, so the transition is published     *)
(* with a reason supplied for it.                                          *)
C13_TransitionHasReason ==
    Done =>
        \A i \in 1..Len(ev.updates) :
            ev.updates[i].state # Undef =>
                /\ ev.updates[i].reason # <<>>
                /\ reason[ev.exp] = ev.updates[i].reason[1]

(***************************************************************************)
(* deferGets (part_000, lines 632-669).                                    *)
(*                                                                         *)
(* A caller is one call of the wrapped function: it gets a promise whose   *)
(* {resolve, reject} pair is put on a waiting list.  The list created by   *)
(* the first call of a group (newWaiting) is the same array as the one     *)
(* stored in the Map: an invocation keeps its list, and defers maps the    *)
(* groupId to the invocation whose list is stored.                         *)
(***************************************************************************)
MaxCalls == 3

DeferCallers == 1..MaxCalls
GroupIds == {"g1", "g2"}
ArgValues == {"x", "y"}
(* What fcn resolves with, rejects with or throws. *)
FcnOutcomes == {"o1", "o2"}
NoInvocation == 0

NotCalled ==
    [status |-> "notCalled", groupId |-> "", args |-> "", value |-> "",
     invocation |-> NoInvocation, whilePending |-> FALSE]

InitDeferGets ==
    /\ defers = [g \in GroupIds |-> NoInvocation]
    /\ invocations = <<>>
    /\ callers = [c \in DeferCallers |-> NotCalled]
    /\ NoExpectations /\ NoPromiseTimeout /\ NoFunction /\ NoFileflow /\ NoConnector

(* The calls are numbered in the order they arrive: c is the next call. *)
Arrives(c) ==
    /\ callers[c].status = "notCalled"
    /\ \A d \in DeferCallers : d < c => callers[d].status # "notCalled"

(* An invocation of fcn for the group has been started and has not settled. *)
PendingInvocation(groupId) ==
    \E i \in 1..Len(invocations) :
        invocations[i].groupId = groupId /\ invocations[i].status = "pending"

(* The promise handed to caller c by the call (groupId, a). *)
PromiseOf(c, groupId, a, i) ==
    [status |-> "pending", groupId |-> groupId, args |-> a, value |-> "",
     invocation |-> i, whilePending |-> PendingInvocation(groupId)]

(* Variant: the Map is never consulted, every call invokes fcn. *)
HasWaiting_Never(groupId) == FALSE

(* lines 646-647: const waiting = defers.get(groupId); if (waiting) *)
HasWaiting(groupId) == defers[groupId] # NoInvocation

(* line 648: waiting.push({ resolve, reject }) *)
CallJoins(c, groupId, a) ==
    /\ Arrives(c)
    /\ HasWaiting(groupId)
    /\ LET i == defers[groupId]
       IN  /\ invocations' = [invocations EXCEPT ![i].waiting = Append(@, c)]
           /\ callers' = [callers EXCEPT ![c] = PromiseOf(c, groupId, a, i)]
    /\ UNCHANGED <<defers, vars, ptVars, fnVars, appVars>>

(* lines 650-653: the list [{ resolve, reject }] is stored and fcn(...args) *)
(* is called; it returns a promise, on which the handlers are registered.  *)
CallInvokes(c, groupId, a) ==
    /\ Arrives(c)
    /\ ~HasWaiting(groupId)
    /\ LET i == Len(invocations) + 1
       IN  /\ invocations' = Append(invocations,
                                [groupId |-> groupId, args |-> a, waiting |-> <<c>>,
                                 status |-> "pending", value |-> ""])
           /\ defers' = [defers EXCEPT ![groupId] = i]
           /\ callers' = [callers EXCEPT ![c] = PromiseOf(c, groupId, a, i)]
    /\ UNCHANGED <<vars, ptVars, fnVars, appVars>>

(* lines 650-653: fcn(...args) throws before it returns a promise.  The     *)
(* exception leaves the executor of the new Promise, which rejects the     *)
(* caller's promise with it; no handler was registered, the stored list    *)
(* stays in the Map.                                                       *)
CallInvokesThrows(c, groupId, a, err) ==
    /\ Arrives(c)
    /\ ~HasWaiting(groupId)
    /\ LET i == Len(invocations) + 1
       IN  /\ invocations' = Append(invocations,
                                [groupId |-> groupId, args |-> a, waiting |-> <<c>>,
                                 status |-> "threw", value |-> err])
           /\ defers' = [defers EXCEPT ![groupId] = i]
           /\ callers' = [callers EXCEPT ![c] =
                             [PromiseOf(c, groupId, a, i) EXCEPT !.status = "rejected",
                                                                !.value = err]]
    /\ UNCHANGED <<vars, ptVars, fnVars, appVars>>

(* for (const w of newWaiting) w.resolve(result) / w.reject(err): settling  *)
(* a promise that is already settled does nothing.                         *)
SettleWaiting(waiting, status_, value) ==
    [c \in DeferCallers |->
        IF (\E k \in 1..Len(waiting) : waiting[k] = c) /\ callers[c].status = "pending"
        THEN [callers[c] EXCEPT !.status = status_, !.value = value]
        ELSE callers[c]]

(* Variant: the handler settles the callers and leaves the list in the Map. *)
FcnResolves_KeepsEntry(i, res) ==
    /\ invocations[i].status = "pending"
    /\ invocations' = [invocations EXCEPT ![i].status = "resolved", ![i].value = res]
    /\ callers' = SettleWaiting(invocations[i].waiting, "resolved", res)
    /\ UNCHANGED <<defers, vars, ptVars, fnVars, appVars>>

(* lines 654-659: the promise of fcn resolved *)
FcnResolves(i, res) ==
    /\ invocations[i].status = "pending"
    /\ invocations' = [invocations EXCEPT ![i].status = "resolved", ![i].value = res]
    /\ defers' = [defers EXCEPT ![invocations[i].groupId] = NoInvocation]
    /\ callers' = SettleWaiting(invocations[i].waiting, "resolved", res)
    /\ UNCHANGED <<vars, ptVars, fnVars, appVars>>

(* lines 660-665: the promise of fcn rejected *)
FcnRejects(i, err) ==
    /\ invocations[i].status = "pending"
    /\ invocations' = [invocations EXCEPT ![i].status = "rejected", ![i].value = err]
    /\ defers' = [defers EXCEPT ![invocations[i].groupId] = NoInvocation]
    /\ callers' = SettleWaiting(invocations[i].waiting, "rejected", err)
    /\ UNCHANGED <<vars, ptVars, fnVars, appVars>>

NextDeferGets ==
    \/ \E c \in DeferCallers, g \in GroupIds, a \in ArgValues : CallJoins(c, g, a)
    \/ \E c \in DeferCallers, g \in GroupIds, a \in ArgValues : CallInvokes(c, g, a)
    \/ \E c \in DeferCallers, g \in GroupIds, a \in ArgValues, err \in FcnOutcomes :
          CallInvokesThrows(c, g, a, err)
    \/ \E i \in 1..Len(invocations), res \in FcnOutcomes : FcnResolves(i, res)
    \/ \E i \in 1..Len(invocations), err \in FcnOutcomes : FcnRejects(i, err)

SpecDeferGets == InitDeferGets /\ [][NextDeferGets]_allVars

(* The callers whose call started an invocation of fcn. *)
Invokers == {c \in DeferCallers : callers[c].status # "notCalled"
                                  /\ invocations[callers[c].invocation].waiting[1] = c}

(* C14: a call that arrives while an invocation of fcn for its groupId is   *)
(* pending starts no invocation of its own (there are as many invocations  *)
(* as first calls); it shares the invocation of the first call, made with  *)
(* the first call's arguments, and both callers settle with the outcome of *)
(* that invocation: pending while it is pending, resolved with its result  *)
(* when it resolves, rejected with its error when it rejects.              *)
C14_JoinersShareInvocation ==
    /\ Cardinality(Invokers) = Len(invocations)
    /\ \A c \in DeferCallers :
          (callers[c].status # "notCalled" /\ callers[c].whilePending) =>
              LET i == callers[c].invocation
                  inv == invocations[i]
                  first == inv.waiting[1]
              IN  /\ first # c
                  /\ callers[first].invocation = i
                  /\ inv.groupId = callers[c].groupId
                  /\ inv.groupId = callers[first].groupId
                  /\ inv.args = callers[first].args
                  /\ inv.status \in {"pending", "resolved", "rejected"}
                  /\ callers[c].status = inv.status
                  /\ callers[first].status = inv.status
                  /\ callers[c].value = inv.value
                  /\ callers[first].value = inv.value

C14_Witness ==
    \E c \in DeferCallers :
        /\ callers[c].status = "rejected" /\ callers[c].whilePending
        /\ callers[c].args # invocations[callers[c].invocation].args
        /\ Len(invocations[callers[c].invocation].waiting) = 3
        /\ callers[c].value = "o2"

(***************************************************************************)
(* JavaScript values.  A value is a record of its type tag t, the string   *)
(* String(value) of a primitive (s), and, for an array or an object, its   *)
(* own enumerable properties in the order of Object.keys (items); the     *)
(* keys of an array are its indices "0", "1", ...                          *)
(***************************************************************************)
JsPrim(t, s) == [t |-> t, s |-> s, items |-> <<>>]
JsUndefined == JsPrim("undefined", "undefined")
JsNull == JsPrim("null", "null")
JsFalse == JsPrim("boolean", "false")
JsTrue == JsPrim("boolean", "true")
JsNum(s) == JsPrim("number", s)
JsStr(s) == JsPrim("string", s)
JsEntry(k, val) == [k |-> k, val |-> val]
JsObject(entries) == [t |-> "object", s |-> "", items |-> entries]
JsArray(vals) ==
    [t |-> "array", s |-> "",
     items |-> [i \in 1..Len(vals) |-> JsEntry(ToString(i - 1), vals[i])]]

(* !value *)
Falsy(x) ==
    \/ x.t \in {"undefined", "null"}
    \/ x.t = "boolean" /\ x.s = "false"
    \/ x.t = "number" /\ x.s \in {"0", "NaN"}
    \/ x.t = "string" /\ x.s = ""

(***************************************************************************)
(* promiseTimeout (part_000, lines 416-436).                               *)
(*                                                                         *)
(* Time is the value of Date.now().  The handlers registered on p run as   *)
(* microtasks, before any timer; a timer runs when it is due, before the   *)
(* clock moves on.                                                         *)
(***************************************************************************)
MaxTimeout == 3
MaxTime == MaxTimeout + 1

(* timeoutMessage: absent, a string, or a function of the duration *)
TimeoutMessages ==
    { [kind |-> "undefined", text |-> ""],
      [kind |-> "string", text |-> "No reply"],
      [kind |-> "string", text |-> ""],
      [kind |-> "function", text |-> "Timed out after "],
      [kind |-> "function", text |-> ""] }

(* What p resolves with or rejects with. *)
PValues == {JsStr("p1"), JsStr("p2")}

Pending == [status |-> "pending", value |-> JsUndefined]
Settled(status_, value) == [status |-> status_, value |-> value]

(* The states p can be in when promiseTimeout is called. *)
PromisesGiven ==
    {Pending} \cup {Settled(st, v) : st \in {"resolved", "rejected"}, v \in PValues}

(* lines 421-434: promiseTimeout has been called at time 0: the timer is    *)
(* set and the handlers are registered on p.                               *)
InitPromiseTimeout ==
    /\ now = 0
    /\ \E tt \in 0..MaxTimeout, tm \in TimeoutMessages, p \in PromisesGiven :
          pt = [startTime |-> 0, timeoutTime |-> tt, timeoutMessage |-> tm, p |-> p,
                handled |-> FALSE, timeout |-> "set", returned |-> Pending,
                settledBy |-> "", settledAt |-> 0]
    /\ NoExpectations /\ NoDeferGets /\ NoFunction /\ NoFileflow /\ NoConnector

(* the timeout message applied: a function of the duration returns its     *)
(* text with the duration (or the empty string it was written to return).  *)
ApplyMessage(timeoutMessage, duration) ==
    IF timeoutMessage.text = "" THEN JsStr("")
    ELSE JsStr(timeoutMessage.text \o ToString(duration))

(* Variant: the message is used as it is, also when it is absent. *)
TimeoutReason_NoDefault(timeoutMessage, duration) ==
    CASE timeoutMessage.kind = "function" -> ApplyMessage(timeoutMessage, duration)
      [] timeoutMessage.kind = "string" -> JsStr(timeoutMessage.text)
      [] OTHER -> JsUndefined

(* lines 424-425: msg = typeof timeoutMessage === 'function' ?              *)
(* timeoutMessage(duration) : timeoutMessage; the rejection is             *)
(* msg || 'Timeout'.                                                       *)
TimeoutReason(timeoutMessage, duration) ==
    LET msg == CASE timeoutMessage.kind = "function" -> ApplyMessage(timeoutMessage, duration)
                 [] timeoutMessage.kind = "string" -> JsStr(timeoutMessage.text)
                 [] OTHER -> JsUndefined
    IN  IF Falsy(msg) THEN JsStr("Timeout") ELSE msg

(* resolve / reject of the returned promise: the first call settles it,    *)
(* the later ones do nothing.                                              *)
Settle(call, by, status_, value) ==
    IF call.returned.status = "pending"
    THEN [call EXCEPT !.returned = Settled(status_, value), !.settledBy = by,
                      !.settledAt = now]
    ELSE call

(* A handler registered on p is waiting to run. *)
MicrotaskQueued == pt.p.status # "pending" /\ ~pt.handled
TimerDue == pt.timeout = "set" /\ now >= pt.startTime + pt.timeoutTime

(* p settles (it may never do so) *)
PSettles(status_, value) ==
    /\ pt.p.status = "pending"
    /\ pt' = [pt EXCEPT !.p = Settled(status_, value)]
    /\ UNCHANGED <<now, vars, dgVars, fnVars, appVars>>

(* Variant: the handlers settle the returned promise and leave the timer set. *)
PHandlersRun_NoClear ==
    /\ MicrotaskQueued
    /\ pt' = [Settle(pt, "p", pt.p.status, pt.p.value) EXCEPT !.handled = TRUE]
    /\ UNCHANGED <<now, vars, dgVars, fnVars, appVars>>

(* lines 429-434: .then(resolve).catch(reject).finally(clearTimeout) *)
PHandlersRun ==
    /\ MicrotaskQueued
    /\ pt' = [Settle(pt, "p", pt.p.status, pt.p.value) EXCEPT
                 !.handled = TRUE,
                 !.timeout = IF @ = "set" THEN "cleared" ELSE @]
    /\ UNCHANGED <<now, vars, dgVars, fnVars, appVars>>

(* lines 423-427: the callback of setTimeout *)
TimerFires ==
    /\ TimerDue
    /\ ~MicrotaskQueued
    /\ pt' = [Settle(pt, "timeout", "rejected",
                     TimeoutReason(pt.timeoutMessage, now - pt.startTime))
                 EXCEPT !.timeout = "fired"]
    /\ UNCHANGED <<now, vars, dgVars, fnVars, appVars>>

Tick ==
    /\ now < MaxTime
    /\ ~TimerDue
    /\ ~MicrotaskQueued
    /\ now' = now + 1
    /\ UNCHANGED <<pt, vars, dgVars, fnVars, appVars>>

NextPromiseTimeout ==
    \/ \E st \in {"resolved", "rejected"}, v \in PValues : PSettles(st, v)
    \/ PHandlersRun
    \/ TimerFires
    \/ Tick

(* The event loop runs the queued handlers and the due timers, and time    *)
(* passes; nothing makes p settle.                                         *)
SpecPromiseTimeout ==
    /\ InitPromiseTimeout
    /\ [][NextPromiseTimeout]_allVars
    /\ WF_allVars(PHandlersRun)
    /\ WF_allVars(TimerFires)
    /\ WF_allVars(Tick)

Deadline == pt.startTime + pt.timeoutTime

(* The promise was rejected by the timer: p had not settled in time. *)
TimedOut == pt.settledBy = "timeout"

(* The returned promise is never pending past the deadline, and it does    *)
(* settle, whether or not p does.                                          *)
SettlesByDeadline ==
    /\ [](pt.returned.status = "pending" => (now <= Deadline /\ pt.timeout = "set"))
    /\ [](pt.returned.status # "pending" => pt.settledAt <= Deadline)
    /\ <>(pt.returned.status # "pending")

(* C15 as stated: the returned promise settles no later than timeoutTime    *)
(* after the call, whether or not p settles; when the timer settles it,    *)
(* it is rejected with the given string, or the result of the given       *)
(* function for the elapsed duration, or 'Timeout' when no message is      *)
(* given.                                                                  *)
C15_RejectsWithGivenMessage ==
    TimedOut =>
        /\ pt.returned.status = "rejected"
        /\ pt.returned.value =
              CASE pt.timeoutMessage.kind = "string" -> JsStr(pt.timeoutMessage.text)
                [] pt.timeoutMessage.kind = "function" ->
                      ApplyMessage(pt.timeoutMessage, pt.timeoutTime)
                [] OTHER -> JsStr("Timeout")

(* C15 as amended: the returned promise settles no later than timeoutTime   *)
(* after the call, whether or not p settles; when the timer settles it,    *)
(* it is rejected with the given string or the function's result when      *)
(* that is a non-empty string, and with 'Timeout' when no message is given *)
(* or the message is the empty string.                                     *)
C15_SettlesByTimeout ==
    /\ SettlesByDeadline
    /\ [](TimedOut =>
            /\ pt.returned.status = "rejected"
            /\ pt.settledAt = Deadline
            /\ pt.returned.value =
                  IF pt.timeoutMessage.text = "" THEN JsStr("Timeout")
                  ELSE IF pt.timeoutMessage.kind = "string" THEN JsStr(pt.timeoutMessage.text)
                  ELSE ApplyMessage(pt.timeoutMessage, pt.timeoutTime))

C15_Witness ==
    /\ TimedOut
    /\ pt.p.status = "pending"
    /\ pt.timeoutMessage = [kind |-> "function", text |-> "Timed out after "]
    /\ pt.returned = Settled("rejected", JsStr("Timed out after 2"))
    /\ now = 2

(***************************************************************************)
(* Bounded sets of JavaScript values, the inputs of hashObj, deepEqual and *)
(* diff: primitives, and arrays and objects of at most MaxLen elements     *)
(* nested to depth MaxDepth.  An object lists its keys in any order.       *)
(***************************************************************************)
MaxDepth == 2
MaxLen == 2

(* The keys of the objects, in ascending order. *)
KeyOrder == <<"a", "b">>

Range(seq) == {seq[i] : i \in 1..Len(seq)}

SeqsUpTo(S, n) == UNION {[1..m -> S] : m \in 0..n}

Injective(seq) == \A i, j \in 1..Len(seq) : seq[i] = seq[j] => i = j

KeySeqs == {ks \in SeqsUpTo(Range(KeyOrder), MaxLen) : Injective(ks)}

ArraysOf(S) == {JsArray(vals) : vals \in SeqsUpTo(S, MaxLen)}

ObjectsOf(S) ==
    UNION {{JsObject([i \in 1..Len(ks) |-> JsEntry(ks[i], vals[i])]) :
                vals \in [1..Len(ks) -> S]} : ks \in KeySeqs}

RECURSIVE ValuesOver(_, _)
ValuesOver(prims, depth) ==
    IF depth = 0 THEN prims
    ELSE LET inner == ValuesOver(prims, depth - 1)
         IN  prims \cup ArraysOf(inner) \cup ObjectsOf(inner)

(* Object.keys(obj) *)
Keys(obj) == [i \in 1..Len(obj.items) |-> obj.items[i].k]

(* obj[key]: undefined when obj has no such property *)
Get(obj, key) ==
    IF \E i \in 1..Len(obj.items) : obj.items[i].k = key
    THEN obj.items[CHOOSE i \in 1..Len(obj.items) : obj.items[i].k = key].val
    ELSE JsUndefined

Perms(n) == {p \in [1..n -> 1..n] : Injective(p)}

(* The values that differ from x only in the order in which objects (x    *)
(* itself or the objects nested in it) list their keys.                    *)
RECURSIVE Reorderings(_)
Reorderings(x) ==
    IF x.items = <<>> THEN {x}
    ELSE LET n == Len(x.items)
             kids == [i \in 1..n |-> Reorderings(x.items[i].val)]
             orders == IF x.t = "object" THEN Perms(n) ELSE {[i \in 1..n |-> i]}
             choices == {f \in [1..n -> UNION Range(kids)] : \A i \in 1..n : f[i] \in kids[i]}
         IN  {[x EXCEPT !.items = [i \in 1..n |-> JsEntry(x.items[o[i]].k, f[o[i]])]] :
                 o \in orders, f \in choices}

(***************************************************************************)
(* hashObj and hash (part_000, lines 374-405).  A string is the sequence   *)
(* of its pieces; a digest is one piece that holds the string it was       *)
(* computed from, which makes hash injective.                              *)
(***************************************************************************)
Chr(c) == [c |-> c, h |-> <<>>]
Text(str) == IF str = "" THEN <<>> ELSE <<Chr(str)>>

(* lines 402-405 *)
hash(str) == <<[c |-> "sha1", h |-> str]>>

(* strs.join(sep) *)
RECURSIVE Join(_, _)
Join(strs, sep) ==
    IF strs = <<>> THEN <<>>
    ELSE IF Len(strs) = 1 THEN strs[1]
    ELSE strs[1] \o <<Chr(sep)>> \o Join(Tail(strs), sep)

(* Variant: the keys are taken as Object.keys lists them. *)
SortKeys_Unsorted(keys) == keys

(* lines 386-390: Object.keys(obj).sort(...) *)
SortKeys(keys) == SelectSeq(KeyOrder, LAMBDA k : k \in Range(keys))

(* lines 374-401 *)
RECURSIVE hashObj(_)
hashObj(obj) ==
    IF Falsy(obj) THEN Text("")
    ELSE IF obj.t = "array"
    THEN hash(Join([i \in 1..Len(obj.items) |-> hashObj(obj.items[i].val)], ","))
    ELSE IF obj.t = "object"
    THEN LET keys == SortKeys(Keys(obj))
         IN  hash(Join([i \in 1..Len(keys) |-> hashObj(Get(obj, keys[i]))], "|"))
    ELSE Text(obj.s)

HashPrims == {JsNull, JsNum("1"), JsStr("x")}

(* Values that are told apart by their type or their key names only. *)
HashProbes ==
    { JsUndefined, JsNull, JsFalse, JsNum("0"), JsStr(""), JsNum("1"), JsStr("1"),
      JsArray(<<>>), JsObject(<<>>), JsArray(<<JsNum("1")>>),
      JsObject(<<JsEntry("a", JsNum("1"))>>), JsObject(<<JsEntry("b", JsNum("1"))>>) }

(* hashObj is about to be applied to two values: any value and either one   *)
(* of its reorderings or one of the probes.                                *)
InitHashObj ==
    /\ \E a \in ValuesOver(HashPrims, MaxDepth) \cup HashProbes :
          \E b \in Reorderings(a) \cup HashProbes : args = <<a, b>>
    /\ result = <<>>
    /\ NoExpectations /\ NoDeferGets /\ NoPromiseTimeout /\ NoFileflow /\ NoConnector

ApplyHashObj ==
    /\ result = <<>>
    /\ result' = <<hashObj(args[1]), hashObj(args[2])>>
    /\ UNCHANGED <<args, vars, dgVars, ptVars, appVars>>

SpecHashObj == InitHashObj /\ [][ApplyHashObj]_allVars

(* a and b are the same value up to the order of object keys: the same     *)
(* primitive, or both arrays of the same length, or both objects with the  *)
(* same set of keys, with such values under every key.                     *)
RECURSIVE StructurallyEqual(_, _)
StructurallyEqual(a, b) ==
    /\ a.t = b.t
    /\ a.s = b.s
    /\ Range(Keys(a)) = Range(Keys(b))
    /\ \A k \in Range(Keys(a)) : StructurallyEqual(Get(a, k), Get(b, k))

(* C16: two values that differ only in the order in which their objects,   *)
(* at any depth, list their keys have the same hashObj.                    *)
C16_KeyOrderIndependent ==
    (result # <<>> /\ StructurallyEqual(args[1], args[2])) => result[1] = result[2]

C16_Witness ==
    /\ result # <<>>
    /\ args[1] = JsObject(<<JsEntry("a", JsObject(<<JsEntry("a", JsNum("1")),
                                                    JsEntry("b", JsStr("x"))>>)),
                            JsEntry("b", JsStr("x"))>>)
    /\ args[2] = JsObject(<<JsEntry("b", JsStr("x")),
                            JsEntry("a", JsObject(<<JsEntry("b", JsStr("x")),
                                                    JsEntry("a", JsNum("1"))>>))>>)
    /\ result[1] = result[2]

(* C17: two values that differ in anything but the order of object keys    *)
(* (a key name, a value, the type of a primitive, array or object) have    *)
(* different hashObj, hash being injective.                                *)
C17_DifferentInputsDifferentHash ==
    (result # <<>> /\ ~StructurallyEqual(args[1], args[2])) => result[1] # result[2]

(***************************************************************************)
(* deepEqual and isObject (part_000, lines 441-463).                       *)
(***************************************************************************)

(* lines 461-463: obj != null && typeof obj === 'object' *)
isObject(obj) == obj.t \in {"object", "array"}

(* a === b where a and b are not both objects: the same primitive *)
StrictEquals(a, b) == a.items = <<>> /\ a = b /\ ~isObject(a) /\ a.s # "NaN"

(* lines 441-460.  The keys compared are those of object1; object2 only     *)
(* has to have as many.                                                    *)
RECURSIVE deepEqual(_, _)
deepEqual(object1, object2) ==
    IF isObject(object1) /\ isObject(object2)
    THEN IF (object1.t = "array") # (object2.t = "array") THEN FALSE
         ELSE IF Len(Keys(object1)) # Len(Keys(object2)) THEN FALSE
         ELSE \A i \in 1..Len(object1.items) :
                 deepEqual(object1.items[i].val, Get(object2, object1.items[i].k))
    ELSE StrictEquals(object1, object2)

DeepEqualPrims == {JsUndefined, JsNum("1")}

(* deepEqual is about to be applied, both ways round, to any value and a    *)
(* reordering of it or a value one level shallower.                        *)
InitDeepEqual ==
    /\ \E a \in ValuesOver(DeepEqualPrims, MaxDepth) :
          \E b \in Reorderings(a) \cup ValuesOver(DeepEqualPrims, MaxDepth - 1) :
              args = <<a, b>>
    /\ result = <<>>
    /\ NoExpectations /\ NoDeferGets /\ NoPromiseTimeout /\ NoFileflow /\ NoConnector

ApplyDeepEqual ==
    /\ result = <<>>
    /\ result' = <<deepEqual(args[1], args[2]), deepEqual(args[2], args[1])>>
    /\ UNCHANGED <<args, vars, dgVars, ptVars, appVars>>

SpecDeepEqual == InitDeepEqual /\ [][ApplyDeepEqual]_allVars

(* a and b are of the same kind, have the same set of keys and structurally *)
(* equal values under every key; a property that holds undefined is a key. *)
RECURSIVE SameStructure(_, _)
SameStructure(a, b) ==
    /\ a.t = b.t
    /\ a.s = b.s
    /\ Range(Keys(a)) = Range(Keys(b))
    /\ \A i \in 1..Len(a.items) :
          \E j \in 1..Len(b.items) :
              /\ a.items[i].k = b.items[j].k
              /\ SameStructure(a.items[i].val, b.items[j].val)

(* C18: deepEqual(a, b) is true exactly when a and b are structurally      *)
(* equal, also for objects that hold a property whose value is undefined;  *)
(* and deepEqual(a, b) = deepEqual(b, a).                                  *)
C18_DeepEqualIsStructural ==
    result # <<>> =>
        /\ result[1] = SameStructure(args[1], args[2])
        /\ result[1] = result[2]

(***************************************************************************)
(* diff and diffInner (part_000, lines 533-618).                           *)
(*                                                                         *)
(* An omit key "a.b.c" is the sequence of its segments <<"a", "b", "c">>;  *)
(* omitKeysMap is the set of its keys (an absent map omits nothing, like   *)
(* an empty one).  A result is <<>> for null, or one record.               *)
(***************************************************************************)

(* typeof value *)
TypeOf(x) == IF x.t \in {"array", "object", "null"} THEN "object" ELSE x.t

(* strs.join(sep) of JavaScript strings *)
RECURSIVE JoinStrings(_, _)
JoinStrings(strs, sep) ==
    IF strs = <<>> THEN ""
    ELSE IF Len(strs) = 1 THEN strs[1]
    ELSE strs[1] \o sep \o JoinStrings(Tail(strs), sep)

(* `${value}` *)
RECURSIVE JsToString(_)
JsToString(x) ==
    IF x.t = "object" THEN "[object Object]"
    ELSE IF x.t = "array"
    THEN JoinStrings([i \in 1..Len(x.items) |->
                         IF x.items[i].val.t \in {"null", "undefined"} THEN ""
                         ELSE JsToString(x.items[i].val)], ",")
    ELSE x.s

NoDiff == <<>>
Found(explanation, path) == <<[explanation |-> explanation, path |-> path]>>

(* lines 583-598: "a.b.c" => "b.c" for the key a, and "*.b.c" => "b.c" *)
OmitKeysMapInner(omitKeysMap, key) ==
    {Tail(omitKey) : omitKey \in {o \in omitKeysMap : Len(o) > 1 /\ (o[1] = key \/ o[1] = "*")}}

(* Object.keys(a).concat(Object.keys(b)), without the keys already checked *)
KeysToCheck(a, b) == Keys(a) \o SelectSeq(Keys(b), LAMBDA k : k \notin Range(Keys(a)))

RECURSIVE diffInner(_, _, _)
RECURSIVE diffKeys(_, _, _, _)

(* lines 577-607: the loop over the keys; the first difference is returned *)
diffKeys(a, b, omitKeysMap, keys) ==
    IF keys = <<>> THEN NoDiff
    ELSE LET key == Head(keys)
         IN  IF <<key>> \in omitKeysMap
             THEN diffKeys(a, b, omitKeysMap, Tail(keys))
             ELSE LET innerDiff == diffInner(Get(a, key), Get(b, key),
                                             OmitKeysMapInner(omitKeysMap, key))
                  IN  IF innerDiff # NoDiff
                      THEN Found(innerDiff[1].explanation, <<key>> \o innerDiff[1].path)
                      ELSE diffKeys(a, b, omitKeysMap, Tail(keys))

(* lines 551-618 *)
diffInner(a, b, omitKeysMap) ==
    IF StrictEquals(a, b) THEN NoDiff
    ELSE IF a.t \in {"null", "undefined"} \/ b.t \in {"null", "undefined"}
    THEN Found(JsToString(a) \o " !== " \o JsToString(b), <<>>)
    ELSE IF TypeOf(a) # TypeOf(b)
    THEN Found("type " \o TypeOf(a) \o " !== " \o TypeOf(b), <<>>)
    ELSE IF TypeOf(a) = "object"
    THEN IF a.t = "array" /\ b.t # "array" THEN Found("array !== object", <<>>)
         ELSE IF a.t # "array" /\ b.t = "array" THEN Found("object !== array", <<>>)
         ELSE IF a.t = "array" /\ Len(a.items) # Len(b.items)
         THEN Found("length: " \o ToString(Len(a.items)) \o " !== " \o ToString(Len(b.items)),
                    <<>>)
         ELSE diffKeys(a, b, omitKeysMap, KeysToCheck(a, b))
    ELSE Found(JsToString(a) \o " !== " \o JsToString(b), <<>>)

(* lines 533-549: the description is `${path.join('.')}: ${explanation}`,   *)
(* kept as its two parts; null is <<>>.                                    *)
diff(a, b, omitKeys) ==
    LET innerDiff == diffInner(a, b, Range(omitKeys))
    IN  IF innerDiff # NoDiff
        THEN <<[path |-> JoinStrings(innerDiff[1].path, "."),
                explanation |-> innerDiff[1].explanation]>>
        ELSE <<>>

DiffPrims == {JsNum("1"), JsNum("2")}

(* The values got from x by one change: another primitive (or undefined)   *)
(* in the place of one primitive, or one more element in an array.         *)
RECURSIVE Edits(_)
Edits(x) ==
    IF ~isObject(x) THEN (DiffPrims \cup {JsUndefined}) \ {x}
    ELSE UNION {{[x EXCEPT !.items[i].val = e] : e \in Edits(x.items[i].val)} :
                   i \in 1..Len(x.items)}
         \cup (IF x.t = "array" /\ Len(x.items) < MaxLen
               THEN {[x EXCEPT !.items =
                         Append(@, JsEntry(ToString(Len(x.items)), JsNum("1")))]}
               ELSE {})

DiffProbes == {JsNull, JsUndefined, JsStr("1"), JsArray(<<>>), JsObject(<<>>)}

OmitSegments == {"a", "0", "*"}

(* omitKeys: absent, or one path of at most MaxDepth segments *)
OmitKeyLists ==
    {<<>>} \cup {<<o>> : o \in SeqsUpTo(OmitSegments, MaxDepth) \ {<<>>}}

(* diff is about to be applied to a value, to the same value, an edit of   *)
(* it or a probe, and to a list of omit keys.                              *)
InitDiff ==
    /\ \E a \in ValuesOver(DiffPrims, MaxDepth) :
          \E b \in {a} \cup Edits(a) \cup DiffProbes :
              \E omitKeys \in OmitKeyLists : args = <<a, b, omitKeys>>
    /\ result = <<>>
    /\ NoExpectations /\ NoDeferGets /\ NoPromiseTimeout /\ NoFileflow /\ NoConnector

ApplyDiff ==
    /\ result = <<>>
    /\ result' = <<diff(args[1], args[2], args[3])>>
    /\ UNCHANGED <<args, vars, dgVars, ptVars, appVars>>

SpecDiff == InitDiff /\ [][ApplyDiff]_allVars

(* The paths at which a and b differ: where both are arrays of the same    *)
(* length, or both objects, the paths at which their values under some key *)
(* differ; otherwise the empty path when they are not the same value.      *)
RECURSIVE DiffPaths(_, _)
DiffPaths(a, b) ==
    IF isObject(a) /\ isObject(b) /\ a.t = b.t
       /\ (a.t = "array" => Len(a.items) = Len(b.items))
    THEN UNION {{<<k>> \o path : path \in DiffPaths(Get(a, k), Get(b, k))} :
                   k \in Range(Keys(a)) \cup Range(Keys(b))}
    ELSE IF a = b THEN {} ELSE {<<>>}

(* An omit key covers the paths it is a prefix of, "*" standing for any key. *)
Covered(path, omitKeys) ==
    \E i \in 1..Len(omitKeys) :
        LET o == omitKeys[i]
        IN  /\ Len(o) <= Len(path)
            /\ \A n \in 1..Len(o) : o[n] = "*" \/ o[n] = path[n]

IsPrefixOf(path, prefixes) ==
    \E n \in 0..Len(path) : JoinStrings(SubSeq(path, 1, n), ".") \in prefixes

(* C19: diff(a, b, omitKeys) is null exactly when every path at which a    *)
(* and b differ is covered by an omit key ("*" matching any key at its     *)
(* level); otherwise the path of the description is a prefix of a path at  *)
(* which they differ and which is not covered.                             *)
C19_DiffNullIffNoOpenDifference ==
    result # <<>> =>
        LET open == {path \in DiffPaths(args[1], args[2]) : ~Covered(path, args[3])}
        IN  /\ (result[1] = <<>>) <=> (open = {})
            /\ result[1] # <<>> =>
                  \E path \in open : IsPrefixOf(path, {result[1][1].path})

(* C20: a step that starts with an expectation in WAITING leaves it in     *)
(* WAITING, READY, FULFILLED or NEW, never in WORKING, REMOVED, RESTARTED  *)
(* or ABORTED; and it only leaves WAITING in the step that ends its own    *)
(* evaluation.  WORKING is therefore entered from READY, not from WAITING. *)
C20_WaitingEndsInAllowedStates ==
    [][ \A e \in Exps :
          state[e] = "WAITING" =>
              /\ state'[e] \in {"WAITING", "READY", "FULFILLED", "NEW"}
              /\ state'[e] # "WAITING" => (ev.exp = e /\ ev.pc # "done" /\ ev'.pc = "done")
              /\ (ev.exp = e /\ ev'.pc = "done" /\ ev.pc # "done") =>
                    state'[e] \in {"WAITING", "READY", "FULFILLED", "NEW"} ]_vars

C20_Witness ==
    \E e \in Exps :
        /\ state[e] = "WORKING"
        /\ ev.pc = "done" /\ ev.exp # e /\ state[ev.exp] = "READY"

(* C21: in an evaluation no worker call is made before the assignment has  *)
(* resolved; every call goes to the worker assigned to the session; the    *)
(* first call is isExpectationFullfilled with wasFulfilled=false, and the  *)
(* readiness query is the second and last call, made exactly when the      *)
(* first one answered not fulfilled.                                       *)
C21_CallsInOrderToOneWorker ==
    (ev.pc # "idle") =>
        /\ ev.pc = "assignWorkerToSession" => ev.calls = <<>>
        /\ \A i \in 1..Len(ev.calls) :
              /\ ev.calls[i].worker \in Workers
              /\ ev.calls[i].worker = session[ev.exp].assignedWorker
              /\ ~ev.calls[i].wasFulfilled
        /\ Len(ev.calls) <= 2
        /\ ev.calls # <<>> => ev.calls[1].method = "isExpectationFullfilled"
        /\ ev.fulfilled # <<>> => ev.calls # <<>>
        /\ Len(ev.calls) = 2 <=> GotNotFulfilled
        /\ Len(ev.calls) = 2 => ev.calls[2].method = "isExpectationReadyToStartWorkingOn"

C21_Witness ==
    /\ Done /\ GotNotReady
    /\ ev.calls = <<Call(2, "isExpectationFullfilled", FALSE),
                    Call(2, "isExpectationReadyToStartWorkingOn", FALSE)>>
    /\ session[ev.exp].assignedWorker = 2

(* The step that ends the part of an evaluation after the assignment. *)
EvaluationEnds ==
    /\ ev.pc \in {"assignWorkerToSession", "isExpectationFullfilled",
                  "isExpectationReadyToStartWorkingOn"}
    /\ ev'.pc = "done"

(* C22: the step that ends an evaluation sets status.sourceExists to the    *)
(* value of the readiness reply when the reply carries one, and changes    *)
(* nothing else of any status; on the fulfilled path, the error path and   *)
(* the no-worker path the update carries no status and the status is left  *)
(* as it was.                                                              *)
C22_OnlySourceExistsChanges ==
    [][ EvaluationEnds =>
          LET e == ev.exp
              r == ev'.readyToStart
          IN  /\ status' =
                    IF r # <<>> /\ r[1].sourceExists # Undef
                    THEN [status EXCEPT ![e].sourceExists = r[1].sourceExists]
                    ELSE status
              /\ r = <<>> => \A i \in 1..Len(ev'.updates) : ev'.updates[i].status = <<>> ]_vars

C22_Witness ==
    /\ Done /\ GotWaitingForAnother
    /\ ev.readyToStart[1].sourceExists = "true"
    /\ status[ev.exp] = [EmptyStatus EXCEPT !.sourceExists = "true"]

(* C27: no caller is left pending for ever when every invocation of fcn    *)
(* resolves, rejects or throws: a caller that is pending is on the list of *)
(* an invocation that is pending, whose settlement will settle it.         *)
C27_PendingCallerHasPendingInvocation ==
    \A c \in DeferCallers :
        callers[c].status = "pending" =>
            invocations[callers[c].invocation].status = "pending"

(* C28: the entry of a group is removed when its invocation resolves or    *)
(* rejects; a call that is not the first of its invocation arrived before  *)
(* that invocation settled; a call that starts an invocation has it made   *)
(* with its own arguments; and a call is only ever served by an invocation *)
(* of its own groupId, whose outcome is the one it settles with.           *)
C28_NoResultKept ==
    /\ \A g \in GroupIds :
          defers[g] # NoInvocation =>
              /\ invocations[defers[g]].groupId = g
              /\ invocations[defers[g]].status \notin {"resolved", "rejected"}
    /\ \A c \in DeferCallers :
          callers[c].status # "notCalled" =>
              LET inv == invocations[callers[c].invocation]
              IN  /\ inv.groupId = callers[c].groupId
                  /\ inv.waiting[1] = c => inv.args = callers[c].args
                  /\ inv.waiting[1] # c => (callers[c].whilePending \/ inv.status = "threw")
                  /\ callers[c].status # "pending" =>
                        (callers[c].value = inv.value /\ inv.status # "pending")

C28_Witness ==
    /\ callers[1].status = "resolved" /\ callers[2].status = "rejected"
    /\ callers[1].groupId = callers[2].groupId
    /\ callers[1].invocation # callers[2].invocation
    /\ callers[1].args # callers[2].args
    /\ invocations[callers[2].invocation].args = callers[2].args
    /\ callers[3].status = "pending" /\ callers[3].groupId # callers[1].groupId
    /\ ~callers[2].whilePending

(* C29: the returned promise settles once: settled, it never changes.      *)
(* Settled by the handlers of p it has p's outcome and the timer is        *)
(* cleared, so the timer never fires; settled by the timer it keeps the    *)
(* timeout rejection whatever p does later.                                *)
C29_SettlesOnceMirrorsP ==
    /\ [](pt.settledBy = "p" => (pt.returned = pt.p /\ pt.timeout = "cleared"))
    /\ [](pt.settledBy = "timeout" =>
            /\ pt.timeout = "fired"
            /\ pt.returned.status = "rejected"
            /\ pt.returned.value = TimeoutReason(pt.timeoutMessage, pt.settledAt - pt.startTime))
    /\ [](pt.returned.status = "pending" <=> pt.settledBy = "")
    /\ [][ pt.returned.status # "pending" =>
              /\ pt'.returned = pt.returned
              /\ pt'.settledBy = pt.settledBy
              /\ pt'.timeout = pt.timeout ]_ptVars

C29_Witness ==
    /\ pt.settledBy = "timeout"
    /\ pt.p.status = "resolved" /\ pt.handled
    /\ pt.returned.status = "rejected"
    /\ pt.timeout = "fired"

(***************************************************************************)
(* quantelFileflowCopy (part_001 lines 25-134): one call, the export job   *)
(* it creates on the FileFlow server, the polls of the job's status and    *)
(* the cancel function it registers on the CancelablePromise it returns.   *)
(***************************************************************************)
MaxCancels == 2

QuantelFileflowStatus ==
    {"WAITING", "PROCESSING", "COMPLETED", "FAILED", "ABORTING", "ABORTED", "CANCELLED"}

(* body.elements?.QJobResponse?.QJob?.status?._text of a body without it *)
NoStatus == "undefined"
JobStatuses == QuantelFileflowStatus \cup {NoStatus}

(* Number.parseFloat of the progress text, as the text of the number *)
JobProgresses == {"NaN", "50"}

StatusValue(s) == IF s = NoStatus THEN JsUndefined ELSE JsStr(s)
FetchResponse == JsStr("[Response]")
FetchError == JsStr("[FetchError]")

InitFileflow ==
    /\ \E clb \in BOOLEAN :
          ff = [pc |-> "createJob", progressClb |-> clb, created |-> "pending",
                createStatus |-> NoStatus, status |-> NoStatus, observedBy |-> "",
                progress |-> "NaN", reported |-> <<>>, onCancel |-> FALSE,
                cancels |-> 0, statusChanges |-> <<>>, returned |-> Pending]
    /\ NoExpectations /\ NoDeferGets /\ NoPromiseTimeout /\ NoFunction /\ NoConnector

(* resolve and reject of the returned promise: the first call settles it *)
SettleReturned(f, status_, value) ==
    IF f.returned.status = "pending"
    THEN [f EXCEPT !.returned = Settled(status_, value)]
    ELSE f

(* lines 95-99: the condition of the polling loop *)
InLoop(s) == s \in {"WAITING", "PROCESSING", "ABORTING"}

(* Variant: the code after the loop resolves whatever the status is. *)
AfterLoop_Resolves(f) ==
    [SettleReturned(f, "resolved", JsUndefined) EXCEPT !.pc = "done"]

(* lines 122-127: the loop was left, or never entered *)
AfterLoop(f) ==
    [(IF f.status = "COMPLETED"
      THEN SettleReturned(f, "resolved", JsUndefined)
      ELSE SettleReturned(f, "rejected", StatusValue(f.status)))
     EXCEPT !.pc = "done"]

(* lines 95-100: the loop condition is tested; sleep(3000) starts when it holds *)
TestLoop(f) == IF InLoop(f.status) THEN [f EXCEPT !.pc = "sleep"] ELSE AfterLoop(f)

(* lines 65-68, 132: the creation request fails, or its body cannot be read *)
CreateRejects ==
    /\ ff.pc = "createJob"
    /\ ff' = [SettleReturned(ff, "rejected", FetchError)
              EXCEPT !.pc = "done", !.created = "error"]
    /\ UNCHANGED <<vars, dgVars, ptVars, fnVars, cn>>

(* lines 70, 128-130: the creation response is not ok *)
CreateNotOk ==
    /\ ff.pc = "createJob"
    /\ ff' = [SettleReturned(ff, "rejected", FetchResponse)
              EXCEPT !.pc = "done", !.created = "notOk"]
    /\ UNCHANGED <<vars, dgVars, ptVars, fnVars, cn>>

(* lines 70-99, 122-127: the job is created; the cancel function is        *)
(* registered and the loop condition is tested for the first time          *)
CreateOk(s, p) ==
    /\ ff.pc = "createJob"
    /\ ff' = TestLoop([ff EXCEPT !.created = "ok", !.createStatus = s, !.status = s,
                                 !.observedBy = "create", !.progress = p,
                                 !.onCancel = TRUE])
    /\ UNCHANGED <<vars, dgVars, ptVars, fnVars, cn>>

(* lines 100-101, 29: the sleep is over and the status request is sent *)
SleepElapses ==
    /\ ff.pc = "sleep"
    /\ ff' = [ff EXCEPT !.pc = "getJobStatus"]
    /\ UNCHANGED <<vars, dgVars, ptVars, fnVars, cn>>

(* lines 29-31, 132: the status request fails, or its body cannot be read *)
PollRejects ==
    /\ ff.pc = "getJobStatus"
    /\ ff' = [SettleReturned(ff, "rejected", FetchError) EXCEPT !.pc = "done"]
    /\ UNCHANGED <<vars, dgVars, ptVars, fnVars, cn>>

(* lines 30, 40, 102, 95-100: the status response is not ok; getJobStatus  *)
(* returns null and the loop goes round                                    *)
PollNotOk ==
    /\ ff.pc = "getJobStatus"
    /\ ff' = TestLoop(ff)
    /\ UNCHANGED <<vars, dgVars, ptVars, fnVars, cn>>

(* Variant: the cancel function always asks for ABORTING. *)
CancelStatus_Aborting(s) == "ABORTING"

(* lines 80-83: the status the cancel function asks for *)
CancelStatus(s) == IF s = "WAITING" THEN "CANCELLED" ELSE "ABORTING"

(* lines 30-37, 102-119, 95-100, 122-127: the status response is ok *)
PollOk(s, p) ==
    /\ ff.pc = "getJobStatus"
    /\ LET f == [ff EXCEPT !.status = s, !.observedBy = "poll", !.progress = p,
                           !.reported = IF ff.progressClb THEN <<p>> ELSE @]
       IN  ff' = IF s \in {"ABORTED", "CANCELLED", "FAILED"}
                 THEN [SettleReturned(f, "rejected", JsUndefined) EXCEPT !.pc = "done"]
                 ELSE IF s = "COMPLETED"
                 THEN [SettleReturned(f, "resolved", JsUndefined) EXCEPT !.pc = "done"]
                 ELSE TestLoop(f)
    /\ UNCHANGED <<vars, dgVars, ptVars, fnVars, cn>>

(* lines 76-90: cancel() of the returned promise runs the registered       *)
(* function, which sends the status-change request                         *)
Cancel ==
    /\ ff.onCancel
    /\ ff.cancels < MaxCancels
    /\ ff' = [ff EXCEPT !.cancels = @ + 1,
                        !.statusChanges = Append(@, [status |-> CancelStatus(ff.status),
                                                     answered |-> FALSE])]
    /\ UNCHANGED <<vars, dgVars, ptVars, fnVars, cn>>

(* lines 87-92: the status-change request is answered, or fails *)
CancelAnswers(i, answer) ==
    /\ i \in 1..Len(ff.statusChanges)
    /\ ~ff.statusChanges[i].answered
    /\ ff' = [SettleReturned(ff, "rejected", answer)
              EXCEPT !.statusChanges[i].answered = TRUE]
    /\ UNCHANGED <<vars, dgVars, ptVars, fnVars, cn>>

PollAnswers ==
    \/ PollRejects
    \/ PollNotOk
    \/ \E s \in JobStatuses, p \in JobProgresses : PollOk(s, p)

CreateAnswers ==
    \/ CreateRejects
    \/ CreateNotOk
    \/ \E s \in JobStatuses, p \in JobProgresses : CreateOk(s, p)

NextFileflow ==
    \/ CreateAnswers
    \/ SleepElapses
    \/ PollAnswers
    \/ Cancel
    \/ \E i \in 1..MaxCancels, answer \in {FetchResponse, FetchError} : CancelAnswers(i, answer)

SpecFileflow == InitFileflow /\ [][NextFileflow]_allVars

(* The timer of sleep fires and the FileFlow server answers every request; *)
(* nothing makes the caller cancel.                                        *)
SpecFileflowFair ==
    /\ InitFileflow
    /\ [][NextFileflow]_allVars
    /\ WF_allVars(CreateAnswers)
    /\ WF_allVars(SleepElapses)
    /\ WF_allVars(PollAnswers)
    /\ WF_allVars(\E i \in 1..MaxCancels, answer \in {FetchResponse, FetchError} :
                      CancelAnswers(i, answer))

PollIssued == ff.pc # "getJobStatus" /\ ff'.pc = "getJobStatus"

(* C23: the returned promise is resolved only when the last status         *)
(* observed is COMPLETED; it is rejected when the creation response is not *)
(* ok and when the job was created and the last status observed, in the    *)
(* creation response or in a poll, is none of WAITING, PROCESSING,         *)
(* ABORTING and COMPLETED; after an observation that ends the function no  *)
(* status request is sent any more.                                        *)
C23_ResolvesOnlyWhenCompleted ==
    /\ [](ff.returned.status = "resolved" =>
            (ff.created = "ok" /\ ff.status = "COMPLETED" /\ ff.pc = "done"))
    /\ [](ff.created = "notOk" => ff.returned.status = "rejected")
    /\ []((ff.created = "ok" /\ ff.status \notin {"WAITING", "PROCESSING", "ABORTING", "COMPLETED"})
            => (ff.returned.status = "rejected" /\ ff.pc = "done"))
    /\ []((ff.created = "ok" /\ ff.status = "COMPLETED") => ff.pc = "done")
    /\ [][ff.pc = "done" => (ff'.pc = "done" /\ ff'.status = ff.status /\ ~PollIssued)]_ff

C23_Witness ==
    /\ ff.createStatus = "WAITING" /\ ff.observedBy = "poll" /\ ff.status = "FAILED"
    /\ ff.returned = Settled("rejected", JsUndefined)
    /\ ff.pc = "done" /\ ff.cancels = 0

(* C24: the returned promise eventually settles. *)
C24_EventuallySettles == <>(ff.returned.status # "pending")

(* C25: every cancel of a created job sends one status-change request,     *)
(* which asks for CANCELLED when the status last observed is WAITING and   *)
(* for ABORTING otherwise; nothing else sends or changes such a request.   *)
C25_OneStatusChangePerCancel ==
    /\ [](Len(ff.statusChanges) = ff.cancels)
    /\ [][ff'.cancels # ff.cancels =>
            /\ ff.created = "ok"
            /\ ff'.cancels = ff.cancels + 1
            /\ ff'.statusChanges =
                  Append(ff.statusChanges,
                         [status |-> IF ff.status = "WAITING" THEN "CANCELLED" ELSE "ABORTING",
                          answered |-> FALSE])]_ff
    /\ [][ff'.cancels = ff.cancels =>
            /\ Len(ff'.statusChanges) = Len(ff.statusChanges)
            /\ \A i \in 1..Len(ff.statusChanges) :
                  ff'.statusChanges[i].status = ff.statusChanges[i].status]_ff

C25_Witness ==
    /\ ff.createStatus = "PROCESSING"
    /\ ff.cancels = 1
    /\ ff.statusChanges = <<[status |-> "CANCELLED", answered |-> TRUE]>>
    /\ ff.status = "WAITING" /\ ff.observedBy = "poll"

(* C26: once a cancel was requested, a pending returned promise is never   *)
(* resolved, and once the returned promise has settled no status request   *)
(* is sent any more.                                                       *)
C26_CancelledNeverResolves ==
    /\ [][(ff.cancels > 0 /\ ff.returned.status = "pending")
            => ff'.returned.status # "resolved"]_ff
    /\ [][(ff.cancels > 0 /\ ff.returned.status # "pending") => ~PollIssued]_ff

(***************************************************************************)
(* Connector.init (part_001 lines 218-255): one call.  Time is counted in  *)
(* seconds.  The handlers of Core and of the PackageManager and the file   *)
(* watcher are awaited; each resolves or rejects.                          *)
(***************************************************************************)
MaxInitSeconds == 2

(* line 252: 10 * 1000 ms *)
ExitDelaySeconds == 10

InitErrors == {"E1", "E2"}

Info(msg) == [level |-> "info", msg |-> msg, error |-> ""]
ErrorLog(msg, e) == [level |-> "error", msg |-> msg, error |-> e]

InitConnector ==
    /\ \E noCore \in BOOLEAN, watchFiles \in BOOLEAN :
          cn = [noCore |-> noCore, watchFiles |-> watchFiles, pc |-> "start",
                steps |-> <<>>, log |-> <<>>, returned |-> Pending,
                destroy |-> "", exitTimer |-> <<>>, exited |-> FALSE,
                now |-> 0, failedAt |-> 0]
    /\ NoExpectations /\ NoDeferGets /\ NoPromiseTimeout /\ NoFunction /\ NoFileflow

(* Variant: the catch block logs and schedules the exit, and leaves the    *)
(* core handler alone.                                                     *)
CatchInit_NoDestroy(c, e) ==
    [c EXCEPT !.pc = "failed",
              !.log = @ \o <<ErrorLog("Error during initialization", e),
                             Info("Shutting down in 10 seconds!")>>,
              !.exitTimer = <<c.now + ExitDelaySeconds>>,
              !.failedAt = c.now,
              !.returned = Settled("resolved", JsUndefined)]

(* lines 241-254: the catch block *)
CatchInit(c, e) ==
    [c EXCEPT !.pc = "failed",
              !.log = @ \o <<ErrorLog("Error during initialization", e),
                             Info("Shutting down in 10 seconds!")>>,
              !.steps = Append(@, "coreHandler.destroy"),
              !.destroy = "pending",
              !.exitTimer = <<c.now + ExitDelaySeconds>>,
              !.failedAt = c.now,
              !.returned = Settled("resolved", JsUndefined)]

(* lines 229-230: the PackageManager handler is initialised *)
StartPackageManager(c) ==
    [c EXCEPT !.pc = "packageManagerHandler.init",
              !.log = Append(@, Info("Initializing PackageManager...")),
              !.steps = Append(@, "packageManagerHandler.init")]

(* lines 239-240 *)
InitDone(c) ==
    [c EXCEPT !.pc = "done",
              !.log = Append(@, Info("Initialization done")),
              !.returned = Settled("resolved", JsUndefined)]

(* lines 218-230: init() is called and runs up to its first await *)
CallInit ==
    /\ cn.pc = "start"
    /\ cn' = IF ~cn.noCore
             THEN [cn EXCEPT !.pc = "coreHandler.init",
                             !.log = Append(@, Info("Initializing Core...")),
                             !.steps = Append(@, "coreHandler.init")]
             ELSE StartPackageManager(
                      [cn EXCEPT !.log = Append(@, Info("Skipping connecting to Core...")),
                                 !.steps = Append(@, "coreHandler.setNoCore")])
    /\ UNCHANGED <<vars, dgVars, ptVars, fnVars, ff>>

(* lines 224-226, 241-254: setNoCore throws *)
SetNoCoreThrows(e) ==
    /\ cn.pc = "start"
    /\ cn.noCore
    /\ cn' = CatchInit([cn EXCEPT !.log = Append(@, Info("Skipping connecting to Core...")),
                                  !.steps = Append(@, "coreHandler.setNoCore")], e)
    /\ UNCHANGED <<vars, dgVars, ptVars, fnVars, ff>>

(* lines 222-230: coreHandler.init resolved *)
CoreInitResolves ==
    /\ cn.pc = "coreHandler.init"
    /\ cn' = StartPackageManager([cn EXCEPT !.log = Append(@, Info("Core initialized"))])
    /\ UNCHANGED <<vars, dgVars, ptVars, fnVars, ff>>

(* lines 230-240: packageManagerHandler.init resolved *)
PackageManagerInitResolves ==
    /\ cn.pc = "packageManagerHandler.init"
    /\ LET c == [cn EXCEPT !.log = Append(@, Info("PackageManager initialized"))]
       IN  cn' = IF cn.watchFiles
                 THEN [c EXCEPT !.pc = "initFileWatcher",
                                !.log = Append(@, Info("Initializing file watcher...")),
                                !.steps = Append(@, "initFileWatcher")]
                 ELSE InitDone(c)
    /\ UNCHANGED <<vars, dgVars, ptVars, fnVars, ff>>

(* lines 235-240: initFileWatcher resolved *)
FileWatcherResolves ==
    /\ cn.pc = "initFileWatcher"
    /\ cn' = InitDone([cn EXCEPT !.log = Append(@, Info("file watcher initialized"))])
    /\ UNCHANGED <<vars, dgVars, ptVars, fnVars, ff>>

Awaiting == {"coreHandler.init", "packageManagerHandler.init", "initFileWatcher"}

(* lines 222, 230, 235, 241-254: the awaited step rejected *)
StepRejects(e) ==
    /\ cn.pc \in Awaiting
    /\ cn' = CatchInit(cn, e)
    /\ UNCHANGED <<vars, dgVars, ptVars, fnVars, ff>>

(* line 245: the promise of coreHandler.destroy() settles; a rejection is  *)
(* logged by logger.error                                                  *)
DestroySettles(outcome, e) ==
    /\ cn.destroy = "pending"
    /\ ~cn.exited
    /\ cn' = [cn EXCEPT !.destroy = outcome,
                        !.log = IF outcome = "rejected" THEN Append(@, ErrorLog("", e)) ELSE @]
    /\ UNCHANGED <<vars, dgVars, ptVars, fnVars, ff>>

ExitTimerDue == cn.exitTimer # <<>> /\ ~cn.exited /\ cn.now >= cn.exitTimer[1]

(* lines 249-252: the timer fires and the process exits *)
ProcessExit ==
    /\ ExitTimerDue
    /\ cn' = [cn EXCEPT !.exited = TRUE]
    /\ UNCHANGED <<vars, dgVars, ptVars, fnVars, ff>>

(* A second passes: while a step is awaited, and until the timer is due. *)
TickSecond ==
    /\ \/ cn.pc \in Awaiting /\ cn.now < MaxInitSeconds
       \/ cn.exitTimer # <<>> /\ ~cn.exited /\ ~ExitTimerDue
    /\ cn' = [cn EXCEPT !.now = @ + 1]
    /\ UNCHANGED <<vars, dgVars, ptVars, fnVars, ff>>

NextConnector ==
    \/ CallInit
    \/ \E e \in InitErrors : SetNoCoreThrows(e)
    \/ CoreInitResolves
    \/ PackageManagerInitResolves
    \/ FileWatcherResolves
    \/ \E e \in InitErrors : StepRejects(e)
    \/ \E outcome \in {"resolved", "rejected"}, e \in InitErrors : DestroySettles(outcome, e)
    \/ ProcessExit
    \/ TickSecond

SpecConnector == InitConnector /\ [][NextConnector]_allVars

(* The steps of init in the order of the code, for the configuration. *)
StepsInOrder ==
    <<IF cn.noCore THEN "coreHandler.setNoCore" ELSE "coreHandler.init",
      "packageManagerHandler.init">>
    \o (IF cn.watchFiles THEN <<"initFileWatcher">> ELSE <<>>)

StepsTaken == SelectSeq(cn.steps, LAMBDA st : st # "coreHandler.destroy")

InitErrorLogged ==
    \E i \in 1..Len(cn.log), e \in InitErrors :
        cn.log[i] = ErrorLog("Error during initialization", e)

(* C30: init never rejects; the steps taken are an initial part of: Core   *)
(* (or setNoCore), PackageManager handler, file watcher when watchFiles is *)
(* set; it is done only when all were taken, with no error logged and no   *)
(* exit scheduled; when a step failed, no later step is taken, the error   *)
(* is logged, the core handler is destroyed, and the process exits         *)
(* ExitDelaySeconds after the failure and not before.                      *)
C30_InitNeverRejectsStepsInOrder ==
    /\ [](cn.returned.status # "rejected")
    /\ [](/\ Len(StepsTaken) <= Len(StepsInOrder)
          /\ StepsTaken = SubSeq(StepsInOrder, 1, Len(StepsTaken))
          /\ \A i \in 1..Len(cn.steps) :
                cn.steps[i] = "coreHandler.destroy" => i = Len(cn.steps))
    /\ [](cn.pc = "done" =>
            /\ cn.steps = StepsInOrder
            /\ ~InitErrorLogged /\ cn.exitTimer = <<>> /\ cn.destroy = ""
            /\ cn.returned = Settled("resolved", JsUndefined))
    /\ [](cn.pc = "failed" =>
            /\ InitErrorLogged
            /\ cn.steps # <<>> /\ cn.steps[Len(cn.steps)] = "coreHandler.destroy"
            /\ cn.destroy # ""
            /\ cn.exitTimer = <<cn.failedAt + ExitDelaySeconds>>
            /\ cn.returned = Settled("resolved", JsUndefined))
    /\ [](cn.exited => (cn.pc = "failed" /\ cn.now = cn.failedAt + ExitDelaySeconds))
    /\ [][cn.pc \in {"failed", "done"} => (cn'.steps = cn.steps /\ cn'.pc = cn.pc)]_cn

C30_Witness ==
    /\ ~cn.noCore /\ cn.watchFiles
    /\ cn.steps = <<"coreHandler.init", "packageManagerHandler.init", "coreHandler.destroy">>
    /\ cn.failedAt = 1
    /\ cn.exited /\ cn.destroy = "rejected"

=============================================================================
